---- MODULE Spec2Model ----
(***************************************************************************)
(* Model of project-aster's horizontal-curve solver                        *)
(* (src/horizontal/mod.rs) and sight-distance lookup                       *)
(* (src/sight_distance.rs).                                                *)
(*                                                                         *)
(* Numbers: the program computes in f64.  The model computes in fixed      *)
(* point, an Int counting thousandths (FP); a value that can be NaN or     *)
(* +infinity is a record: Num(v), NaN or Inf.  Trigonometric functions     *)
(* are tables with linear interpolation.                                   *)
(* Text: a string is a sequence of one-character strings, and every        *)
(* coercion parses that sequence character by character.                   *)
(***************************************************************************)
EXTENDS Integers, Sequences, FiniteSets, TLC

\* ------------------------------------------------------------------ bounds
\* radii 0..MaxRadius are offered as the text of input_radius
MaxRadius == 2
\* obstruction offsets 0..MaxM are offered as the text of input_m
MaxM == 5
\* design speeds 0..MaxSpeed are asked of the sight-distance table
MaxSpeed == 3

\* ------------------------------------------------------- f64 as fixed point
FP == 1000
\* std::f64::consts::PI
PI == 3142
\* 5729.6, the degree-of-curve constant
K5729_6 == 5729600
\* 28.65, the sight-line constant
K28_65 == 28650

Num(v) == [kind |-> "num", v |-> v]
NaN == [kind |-> "nan", v |-> 0]
Inf == [kind |-> "inf", v |-> 0]

\* linear interpolation between the table points (x0,y0) and (x1,y1)
Lerp(x, x0, y0, x1, y1) == y0 + ((y1 - y0) * (x - x0)) \div (x1 - x0)

\* sin of an angle given in thousandths of a degree, 0..90 degrees
SinDeg(a) ==
    CASE a <= 15000 -> Lerp(a, 0, 0, 15000, 259)
      [] a <= 30000 -> Lerp(a, 15000, 259, 30000, 500)
      [] a <= 45000 -> Lerp(a, 30000, 500, 45000, 707)
      [] a <= 60000 -> Lerp(a, 45000, 707, 60000, 866)
      [] a <= 75000 -> Lerp(a, 60000, 866, 75000, 966)
      [] OTHER      -> Lerp(a, 75000, 966, 90000, 1000)

CosDeg(a) == SinDeg(90000 - a)

\* tan of an angle given in thousandths of a degree, 0..75 degrees
TanDeg(a) ==
    CASE a <= 15000 -> Lerp(a, 0, 0, 15000, 268)
      [] a <= 30000 -> Lerp(a, 15000, 268, 30000, 577)
      [] a <= 45000 -> Lerp(a, 30000, 577, 45000, 1000)
      [] a <= 60000 -> Lerp(a, 45000, 1000, 60000, 1732)
      [] OTHER      -> Lerp(a, 60000, 1732, 75000, 3732)

\* f64::acos, result in thousandths of a degree; NaN outside [-1, 1]
AcosDeg(x) ==
    CASE x > 1000 \/ x < -1000 -> NaN
      [] x >= 750  -> Num(Lerp(x, 1000, 0, 750, 41410))
      [] x >= 500  -> Num(Lerp(x, 750, 41410, 500, 60000))
      [] x >= 250  -> Num(Lerp(x, 500, 60000, 250, 75522))
      [] x >= 0    -> Num(Lerp(x, 250, 75522, 0, 90000))
      [] x >= -250 -> Num(Lerp(x, 0, 90000, -250, 104478))
      [] x >= -500 -> Num(Lerp(x, -250, 104478, -500, 120000))
      [] x >= -750 -> Num(Lerp(x, -500, 120000, -750, 138590))
      [] OTHER     -> Num(Lerp(x, -750, 138590, -1000, 180000))

\* --------------------------------------------------------------- Result<T>
Ok(v) == [ok |-> TRUE, val |-> v]
Err(e) == [ok |-> FALSE, err |-> e]
\* Result::unwrap_or_default for a numeric T
UnwrapOrDefault(r) == IF r.ok THEN r.val ELSE 0

\* -------------------------------------------------------------------- text
DigitChars == {"0", "1", "2", "3", "4", "5", "6", "7", "8", "9"}

DigitVal(c) ==
    CASE c = "0" -> 0 [] c = "1" -> 1 [] c = "2" -> 2 [] c = "3" -> 3
      [] c = "4" -> 4 [] c = "5" -> 5 [] c = "6" -> 6 [] c = "7" -> 7
      [] c = "8" -> 8 [] c = "9" -> 9

DigitChar(d) ==
    CASE d = 0 -> "0" [] d = 1 -> "1" [] d = 2 -> "2" [] d = 3 -> "3"
      [] d = 4 -> "4" [] d = 5 -> "5" [] d = 6 -> "6" [] d = 7 -> "7"
      [] d = 8 -> "8" [] d = 9 -> "9"

IsNumeric(s) == Len(s) > 0 /\ \A i \in 1..Len(s) : s[i] \in DigitChars

RECURSIVE ParseDigits(_)
ParseDigits(s) ==
    IF Len(s) = 0 THEN 0
    ELSE 10 * ParseDigits(SubSeq(s, 1, Len(s) - 1)) + DigitVal(s[Len(s)])

\* the decimal text of a natural number (used to write the inputs down)
RECURSIVE Digits(_)
Digits(n) ==
    IF n < 10 THEN <<DigitChar(n)>>
    ELSE Digits(n \div 10) \o <<DigitChar(n % 10)>>

Has(s, c) == \E i \in 1..Len(s) : s[i] = c
IndexOf(s, c) == CHOOSE i \in 1..Len(s) : s[i] = c /\ \A j \in 1..(i - 1) : s[j] # c
Before(s, c) == SubSeq(s, 1, IndexOf(s, c) - 1)
After(s, c) == SubSeq(s, IndexOf(s, c) + 1, Len(s))

\* ---------------------------------------------------- crate::datatypes
\* coerce_length: a numeric string to a Length
coerce_length(s) ==
    IF IsNumeric(s) THEN Ok(ParseDigits(s) * FP) ELSE Err("ParseError")

\* coerce_speed: a numeric string to a Speed
coerce_speed(s) ==
    IF IsNumeric(s) THEN Ok(ParseDigits(s) * FP) ELSE Err("ParseError")

\* coerce_station_value: station notation "12+50" is 1250
coerce_station_value(s) ==
    IF Has(s, "+") /\ IsNumeric(Before(s, "+")) /\ IsNumeric(After(s, "+"))
    THEN Ok((100 * ParseDigits(Before(s, "+")) + ParseDigits(After(s, "+"))) * FP)
    ELSE Err("ParseError")

\* an optional component of a degree-minute-second angle: absent is zero
DmsPart(s) == IF Len(s) = 0 THEN Ok(0) ELSE IF IsNumeric(s) THEN Ok(ParseDigits(s)) ELSE Err("ParseError")

MkAngle(deg) == [decimal_degrees |-> deg, radians |-> (deg * PI) \div (180 * FP)]

\* Angle::from: decimal degrees "90", or D d M ' S " with M and S optional
AngleFrom(s) ==
    IF ~Has(s, "d")
    THEN IF IsNumeric(s) THEN Ok(MkAngle(ParseDigits(s) * FP)) ELSE Err("ParseError")
    ELSE LET d == Before(s, "d")
             r == After(s, "d")
             m == IF Has(r, "'") THEN Before(r, "'") ELSE r
             r2 == IF Has(r, "'") THEN After(r, "'") ELSE <<>>
             sec == IF Has(r2, "\"") THEN Before(r2, "\"") ELSE r2
         IN  IF IsNumeric(d) /\ DmsPart(m).ok /\ DmsPart(sec).ok
             THEN Ok(MkAngle(ParseDigits(d) * FP
                             + (DmsPart(m).val * FP) \div 60
                             + (DmsPart(sec).val * FP) \div 3600))
             ELSE Err("ParseError")

\* ------------------------------------------------ src/horizontal/mod.rs
VARIABLES
    data,        \* the HorizontalData the caller holds (the fields the solver reads)
    dimensions,  \* to_horizontal_curve's local `dimensions`: the last to_dimensions result
    curve,       \* the last to_horizontal_curve call: its receiver and its result
    again,       \* the last re-derivation of the stations from one station of `curve`
    files,       \* the two look-up files on disk, as lines of tokens (or "missing")
    table,       \* the last parse_table call: its argument and its outcome
    lookup       \* the last calc_min_sight_distance call: its arguments and its outcome

vars == <<data, dimensions, curve, again, files, table, lookup>>
horizontalVars == <<data, dimensions, curve, again>>
sightVars == <<files, table, lookup>>

None == [kind |-> "none"]

HorizontalStationDefinition == {"PI", "PC", "PT"}
HorizontalBuildDefinition == {"RadiusCurveAngle", "RadiusTangent"}

\* HorizontalStationDefinition::next
StationDefinitionNext(self) ==
    CASE self = "PC" -> "PI"
      [] self = "PI" -> "PT"
      [] self = "PT" -> "PC"

\* HorizontalBuildDefinition::next
BuildDefinitionNext(self) ==
    CASE self = "RadiusCurveAngle" -> "RadiusTangent"
      [] self = "RadiusTangent" -> "RadiusCurveAngle"

\* radius / 28.65 * ((radius - m) / radius).acos() * 180.0 / PI
SightDistance(radius, m) ==
    IF radius = 0 THEN NaN
    ELSE LET a == AcosDeg(((radius - m) * FP) \div radius)
         IN  IF a = NaN THEN NaN ELSE Num((radius * a.v) \div K28_65)

\* Angle { radians: 5729.6 / radius * PI / 180.0, decimal_degrees: 5729.6 / radius }
CurveLength100(radius) ==
    IF radius = 0 THEN [radians |-> Inf, decimal_degrees |-> Inf]
    ELSE [radians |-> Num(((((K5729_6 * 10) \div radius) * PI) \div 180) \div 10),
          decimal_degrees |-> Num(((K5729_6 * 100) \div radius) * 10)]

\* the RadiusCurveAngle arm, after radius and curve_angle have parsed
SolveRadiusCurveAngle(self, radius, curve_angle) ==
    LET half == curve_angle.decimal_degrees \div 2
        m == UnwrapOrDefault(coerce_length(self.input_m))
        design_speed == UnwrapOrDefault(coerce_speed(self.input_design_speed))
    IN  [radius |-> radius,
         curve_length |-> ((((radius * curve_angle.decimal_degrees) \div FP) * PI) \div 180) \div FP,
         tangent |-> (radius * TanDeg(half)) \div FP,
         long_chord |-> (2 * radius * SinDeg(half)) \div FP,
         middle_ordinate |-> (radius * (FP - CosDeg(half))) \div FP,
         external |-> (radius * ((FP * FP) \div CosDeg(half) - FP)) \div FP,
         curve_length_100 |-> CurveLength100(radius),
         curve_angle |-> curve_angle,
         design_speed |-> design_speed,
         sight_distance |-> SightDistance(radius, m)]

\* to_dimensions with the radius parsed before the build method is matched
to_dimensions_parse_first(self) ==
    LET radius == coerce_length(self.input_radius)
        curve_angle == AngleFrom(self.input_curve_angle)
    IN  IF ~radius.ok THEN Err(radius.err)
        ELSE IF ~curve_angle.ok THEN Err(curve_angle.err)
        ELSE IF self.input_build_method = "RadiusCurveAngle"
        THEN Ok(SolveRadiusCurveAngle(self, radius.val, curve_angle.val))
        ELSE Err("NotImplemented")

\* to_dimensions with `?` on the obstruction offset in place of unwrap_or_default
to_dimensions_m_required(self) ==
    IF self.input_build_method = "RadiusCurveAngle"
    THEN LET radius == coerce_length(self.input_radius)
             curve_angle == AngleFrom(self.input_curve_angle)
             m == coerce_length(self.input_m)
         IN  IF ~radius.ok THEN Err(radius.err)
             ELSE IF ~curve_angle.ok THEN Err(curve_angle.err)
             ELSE IF ~m.ok THEN Err(m.err)
             ELSE Ok(SolveRadiusCurveAngle(self, radius.val, curve_angle.val))
    ELSE Err("NotImplemented")

to_dimensions(self) ==
    IF self.input_build_method = "RadiusCurveAngle"
    THEN LET radius == coerce_length(self.input_radius)
             curve_angle == AngleFrom(self.input_curve_angle)
         IN  IF ~radius.ok THEN Err(radius.err)
             ELSE IF ~curve_angle.ok THEN Err(curve_angle.err)
             ELSE Ok(SolveRadiusCurveAngle(self, radius.val, curve_angle.val))
    ELSE Err("NotImplemented")

Station(value) == [value |-> value, elevation |-> 0]

pc_to_pi(sts, dim) == Station(sts.value + dim.tangent)

pc_to_pt(sts, dim) == Station(sts.value + dim.curve_length)

\* pi_to_pc stepping back by the curve length
pi_to_pc_by_curve(sts, dim) == [value |-> sts.value - dim.curve_length, elevation |-> 0]

pi_to_pc(sts, dim) == Station(sts.value - dim.tangent)

\* pi_to_pt measured along the curve from the PC: PI - tangent + curve_length
pi_to_pt_along_curve(sts, dim) ==
    [value |-> sts.value - dim.tangent + dim.curve_length, elevation |-> 0]

pi_to_pt(sts, dim) == Station(sts.value + dim.tangent)

pt_to_pc(sts, dim) == Station(sts.value - dim.curve_length)

\* pt_to_pi with the sign of the tangent flipped
pt_to_pi_forward(sts, dim) == [value |-> sts.value + dim.tangent, elevation |-> 0]

pt_to_pi(sts, dim) == Station(sts.value - dim.tangent)

\* the match of to_stations on the station method, from the parsed station
StationsFrom(method, starting_station, dim) ==
    CASE method = "PC" -> [pc |-> starting_station,
                           pi |-> pc_to_pi(starting_station, dim),
                           pt |-> pc_to_pt(starting_station, dim)]
      [] method = "PI" -> [pc |-> pi_to_pc(starting_station, dim),
                           pi |-> starting_station,
                           pt |-> pi_to_pt(starting_station, dim)]
      [] method = "PT" -> [pc |-> pt_to_pc(starting_station, dim),
                           pi |-> pt_to_pi(starting_station, dim),
                           pt |-> starting_station]

to_stations(self, dim) ==
    LET value == coerce_station_value(self.input_station)
    IN  IF ~value.ok THEN Err(value.err)
        ELSE Ok(StationsFrom(self.input_station_method, Station(value.val), dim))

\* to_horizontal_curve that keeps the dimensions when the stations fail
to_horizontal_curve_partial(self) ==
    LET dims == to_dimensions(self)
    IN  IF ~dims.ok THEN Err(dims.err)
        ELSE LET stations == to_stations(self, dims.val)
             IN  IF ~stations.ok THEN Ok([dimensions |-> dims.val])
                 ELSE Ok([dimensions |-> dims.val, stations |-> stations.val])

to_horizontal_curve(self) ==
    LET dims == to_dimensions(self)
    IN  IF ~dims.ok THEN Err(dims.err)
        ELSE LET stations == to_stations(self, dims.val)
             IN  IF ~stations.ok THEN Err(stations.err)
                 ELSE Ok([dimensions |-> dims.val, stations |-> stations.val])

\* the station of a triple that a station method names
StationOf(stations, method) ==
    CASE method = "PC" -> stations.pc
      [] method = "PI" -> stations.pi
      [] method = "PT" -> stations.pt

\* ---- the texts offered as inputs
StationInputs == {<<"1", "+", "0", "0">>, <<"1", "2", "+", "5", "0">>, <<"1", "x">>, <<>>}
RadiusInputs == {Digits(n) : n \in 0..MaxRadius} \cup {<<"a", "b", "c">>, <<>>}
AngleInputs == {<<"6", "0">>, <<"9", "0", "d", "3", "0", "'">>, <<"1", "2", "0", "d">>,
                <<"6", "d", "x">>, <<>>}
MInputs == {Digits(n) : n \in 0..MaxM} \cup {<<"m">>, <<>>}
SpeedInputs == {<<"6", "5">>, <<>>}

HorizontalData ==
    [input_station_method : HorizontalStationDefinition,
     input_build_method : HorizontalBuildDefinition,
     input_station : StationInputs,
     input_radius : RadiusInputs,
     input_curve_angle : AngleInputs,
     input_design_speed : SpeedInputs,
     input_m : MInputs]

InitHorizontal ==
    /\ data \in HorizontalData
    /\ dimensions = None
    /\ curve = None
    /\ again = None

\* the caller cycles the station method
NextStationMethod ==
    /\ data' = [data EXCEPT !.input_station_method = StationDefinitionNext(@)]
    /\ UNCHANGED <<dimensions, curve, again>>

\* the caller cycles the build method
NextBuildMethod ==
    /\ data' = [data EXCEPT !.input_build_method = BuildDefinitionNext(@)]
    /\ UNCHANGED <<dimensions, curve, again>>

\* a call of to_horizontal_curve on the current data
ToHorizontalCurve ==
    /\ dimensions' = [kind |-> "called", result |-> to_dimensions(data)]
    /\ curve' = [kind |-> "called", self |-> data, result |-> to_horizontal_curve(data)]
    /\ again' = None
    /\ UNCHANGED data

\* to_stations run again on the same dimensions, from one station of the
\* returned triple under that station's own tag
Rederive(method) ==
    /\ curve.kind = "called"
    /\ curve.result.ok
    /\ again' = [kind |-> "called", method |-> method,
                 stations |-> StationsFrom(method,
                                           StationOf(curve.result.val.stations, method),
                                           curve.result.val.dimensions)]
    /\ UNCHANGED <<data, dimensions, curve>>

\* --------------------------------------------------- src/sight_distance.rs
SightType == {"Stopping", "Passing", "Decision"}

\* the file parse_table opens for a sight type
TablePath(sight_type) ==
    CASE sight_type = "Stopping" -> "table_201_1"
      [] sight_type = "Passing"  -> "table_201_1"
      [] sight_type = "Decision" -> "table_201_7"

\* str::parse::<i32> and str::parse::<f64> on a token
ParseI32(tok) == IF IsNumeric(tok) THEN Ok(ParseDigits(tok)) ELSE Err("ParseIntError")
ParseF64(tok) == IF IsNumeric(tok) THEN Ok(ParseDigits(tok) * FP) ELSE Err("ParseFloatError")

\* HashMap::insert
Insert(map, k, v) == [x \in DOMAIN map \cup {k} |-> IF x = k THEN v ELSE map[x]]

\* line.split_whitespace().skip(1).map(parse::<f64>().expect(..)).collect()
RowPanics(line) == \E i \in 2..Len(line) : ~ParseF64(line[i]).ok
Row(line) == [i \in 1..(Len(line) - 1) |-> ParseF64(line[i + 1]).val]

\* the loop of parse_table over the lines, from the map built so far
RECURSIVE ParseLines(_, _)
ParseLines(lines, arguments) ==
    IF Len(lines) = 0 THEN [kind |-> "Ok", map |-> arguments]
    ELSE LET line == Head(lines)
         IN  IF Len(line) > 0 /\ ParseI32(line[1]).ok
             THEN IF RowPanics(line)
                  THEN [kind |-> "panic",
                        msg |-> "Table configured improperly. Remove commas from #s."]
                  ELSE ParseLines(Tail(lines),
                                  Insert(arguments, ParseI32(line[1]).val, Row(line)))
             ELSE ParseLines(Tail(lines), arguments)

parse_table(fs, sight_type) ==
    LET file == fs[TablePath(sight_type)]
    IN  IF file.kind = "missing" THEN [kind |-> "Err", err |-> "io"]
        ELSE ParseLines(file.lines, <<>>)

\* Column with the Decision arm reading the passing column
ColumnDecisionSecond(sight_type) ==
    CASE sight_type = "Stopping" -> 0
      [] sight_type = "Passing"  -> 1
      [] sight_type = "Decision" -> 1

\* the column calc_min_sight_distance indexes, counted from 0
Column(sight_type) ==
    CASE sight_type = "Stopping" -> 0
      [] sight_type = "Passing"  -> 1
      [] sight_type = "Decision" -> 0

calc_min_sight_distance(tbl, design_speed, sight_type, sustained_downgrade) ==
    IF design_speed \notin DOMAIN tbl
    THEN [kind |-> "panic", msg |-> "design speed isn't in table."]
    ELSE IF Column(sight_type) + 1 > Len(tbl[design_speed])
    THEN [kind |-> "panic", msg |-> "index out of bounds"]
    ELSE LET minimum_sight_distance == tbl[design_speed][Column(sight_type) + 1]
         IN  [kind |-> "Ok",
              val |-> IF sustained_downgrade
                      THEN (minimum_sight_distance * 12) \div 10
                      ELSE minimum_sight_distance]

\* ---- the files offered as look-up tables
Header == <<<<"m", "p", "h">>, <<"f", "t">>, <<"f", "t">>>>
GoodFile == [kind |-> "file",
             lines |-> <<Header,
                         <<Digits(1), Digits(125), Digits(800)>>,
                         <<>>,
                         <<Digits(2), Digits(200), Digits(1100)>>>>]
ShortRowFile == [kind |-> "file",
                 lines |-> <<<<Digits(1), Digits(220), Digits(330)>>,
                             <<Digits(2), Digits(450)>>,
                             <<Digits(1), Digits(240), Digits(350)>>>>]
CommaFile == [kind |-> "file",
              lines |-> <<<<Digits(1), Digits(125), Digits(800)>>,
                          <<Digits(2), Digits(200), <<"1", ",", "1", "0", "0">>>>>>]
MissingFile == [kind |-> "missing"]
FileChoices == {GoodFile, ShortRowFile, CommaFile, MissingFile}

\* a panic unwinds the only thread: the process is gone
Crashed ==
    \/ table.kind = "called" /\ table.result.kind = "panic"
    \/ lookup.kind = "called" /\ lookup.result.kind = "panic"

\* a call of parse_table
ParseTable(sight_type) ==
    /\ ~Crashed
    /\ table' = [kind |-> "called", sight_type |-> sight_type,
                 result |-> parse_table(files, sight_type)]
    /\ UNCHANGED <<files, lookup>>

\* a call of calc_min_sight_distance on the table last loaded
CalcMinSightDistance(design_speed, sight_type, sustained_downgrade) ==
    /\ ~Crashed
    /\ table.kind = "called"
    /\ table.result.kind = "Ok"
    /\ lookup' = [kind |-> "called",
                  table |-> table.result.map,
                  design_speed |-> design_speed,
                  sight_type |-> sight_type,
                  sustained_downgrade |-> sustained_downgrade,
                  result |-> calc_min_sight_distance(table.result.map, design_speed,
                                                     sight_type, sustained_downgrade)]
    /\ UNCHANGED <<files, table>>

\* ------------------------------------------------------------ specifications
\* HorizontalData::default()
DefaultData ==
    [input_station_method |-> "PI", input_build_method |-> "RadiusCurveAngle",
     input_station |-> <<>>, input_radius |-> <<>>, input_curve_angle |-> <<>>,
     input_design_speed |-> <<>>, input_m |-> <<>>]

\* the curve solver, on any input record; the look-up tables are not touched
Init ==
    /\ InitHorizontal
    /\ files = [table_201_1 |-> MissingFile, table_201_7 |-> MissingFile]
    /\ table = None
    /\ lookup = None

Next ==
    \/ NextStationMethod /\ UNCHANGED sightVars
    \/ NextBuildMethod /\ UNCHANGED sightVars
    \/ ToHorizontalCurve /\ UNCHANGED sightVars
    \/ \E method \in HorizontalStationDefinition : Rederive(method) /\ UNCHANGED sightVars

Spec == Init /\ [][Next]_vars

\* the sight-distance look-up, on any pair of files; the curve solver is idle
InitSight ==
    /\ data = DefaultData
    /\ dimensions = None
    /\ curve = None
    /\ again = None
    /\ files \in [table_201_1 : FileChoices, table_201_7 : FileChoices]
    /\ table = None
    /\ lookup = None

NextSight ==
    \/ \E st \in SightType : ParseTable(st) /\ UNCHANGED horizontalVars
    \/ \E speed \in 0..MaxSpeed, st \in SightType, dg \in BOOLEAN :
           CalcMinSightDistance(speed, st, dg) /\ UNCHANGED horizontalVars

SpecSight == InitSight /\ [][NextSight]_vars

\* ------------------------------------------------------------------ claims
Called == curve.kind = "called"
Solved == Called /\ curve.result.ok
\* of the last solved call: the known station's value, the dimensions, the triple
Known == coerce_station_value(curve.self.input_station).val
Dim == curve.result.val.dimensions
Sts == curve.result.val.stations
Method == curve.self.input_station_method

\* C1: every triple to_stations returns is the row of the directional table
\* for its known-station tag: PC gives (known, known + tangent, known +
\* curve_length), PI gives (known - tangent, known, known + tangent), PT
\* gives (known - curve_length, known - tangent, known).
C1_DirectionalTable ==
    Solved =>
        /\ Method = "PC" => /\ Sts.pc.value = Known
                            /\ Sts.pi.value = Known + Dim.tangent
                            /\ Sts.pt.value = Known + Dim.curve_length
        /\ Method = "PI" => /\ Sts.pc.value = Known - Dim.tangent
                            /\ Sts.pi.value = Known
                            /\ Sts.pt.value = Known + Dim.tangent
        /\ Method = "PT" => /\ Sts.pc.value = Known - Dim.curve_length
                            /\ Sts.pi.value = Known - Dim.tangent
                            /\ Sts.pt.value = Known

\* a PT-known curve with a real tangent has been solved
C1_Witness ==
    /\ Solved
    /\ Method = "PT"
    /\ Dim.tangent > 0
    /\ Sts.pi.value = Known - Dim.tangent
    /\ Sts.pi.value # Sts.pc.value

\* C2 as stated: every returned triple satisfies pi - pc = tangent,
\* pt - pc = curve_length and pt - pi = tangent, all at once.
C2_AllThreeRelations ==
    Solved =>
        /\ Sts.pi.value - Sts.pc.value = Dim.tangent
        /\ Sts.pt.value - Sts.pc.value = Dim.curve_length
        /\ Sts.pt.value - Sts.pi.value = Dim.tangent

\* C2 amended: every returned triple satisfies the two relations that involve
\* its known station (PC: pi - pc = tangent and pt - pc = curve_length; PI:
\* pi - pc = tangent and pt - pi = tangent; PT: pt - pc = curve_length and
\* pt - pi = tangent); all three hold at once exactly when
\* curve_length = 2 * tangent.
C2_RelationsOfKnownStation ==
    Solved =>
        LET pi_pc == Sts.pi.value - Sts.pc.value = Dim.tangent
            pt_pc == Sts.pt.value - Sts.pc.value = Dim.curve_length
            pt_pi == Sts.pt.value - Sts.pi.value = Dim.tangent
        IN  /\ Method = "PC" => pi_pc /\ pt_pc
            /\ Method = "PI" => pi_pc /\ pt_pi
            /\ Method = "PT" => pt_pc /\ pt_pi
            /\ (pi_pc /\ pt_pc /\ pt_pi) <=> (Dim.curve_length = 2 * Dim.tangent)

\* a PI-known curve whose pc and pt are a tangent either side of the PI, and
\* so not a curve length apart
C2_Witness ==
    /\ Solved
    /\ Method = "PI"
    /\ Dim.curve_length # 2 * Dim.tangent
    /\ Sts.pt.value - Sts.pi.value = Dim.tangent
    /\ Sts.pt.value - Sts.pc.value # Dim.curve_length

\* C3 as stated: re-deriving the triple from any one of its stations, under
\* that station's own tag, yields the same triple.
C3_RoundTrip ==
    again.kind = "called" => again.stations = Sts

\* C3 amended: re-deriving from the station the triple was first derived from
\* yields the same triple; re-deriving from either of the other two stations
\* yields the same triple exactly when curve_length = 2 * tangent.
C3_RoundTripOfKnownStation ==
    again.kind = "called" =>
        (again.stations = Sts) <=>
            (again.method = Method \/ Dim.curve_length = 2 * Dim.tangent)

\* a PC-known triple re-derived from its PI: the pt moves
C3_Witness ==
    /\ again.kind = "called"
    /\ Method = "PC"
    /\ again.method = "PI"
    /\ Dim.curve_length # 2 * Dim.tangent
    /\ again.stations.pc = Sts.pc
    /\ again.stations.pt # Sts.pt

\* C4: with build method RadiusTangent, to_horizontal_curve (and the
\* to_dimensions call in it) fails with the not-implemented error, whatever
\* the other inputs are, and returns no curve.
C4_RadiusTangentUnsupported ==
    (Called /\ curve.self.input_build_method = "RadiusTangent") =>
        /\ curve.result = Err("NotImplemented")
        /\ dimensions.result = Err("NotImplemented")

\* RadiusTangent was asked for with a radius that does not parse
C4_Witness ==
    /\ Called
    /\ curve.self.input_build_method = "RadiusTangent"
    /\ curve.self.input_radius = <<"a", "b", "c">>
    /\ ~curve.result.ok

\* C5 as stated: an obstruction offset greater than the radius makes
\* to_dimensions fail with a GeometryError, and no HorizontalDimensions with a
\* NaN sight_distance is ever returned; the offset may be as large as the
\* radius.  (Stated for a positive radius: a zero radius divides by zero
\* whatever the offset is.)
C5_OffsetBeyondRadiusFails ==
    (dimensions.kind = "called"
        /\ curve.self.input_build_method = "RadiusCurveAngle"
        /\ coerce_length(curve.self.input_radius).ok
        /\ coerce_length(curve.self.input_radius).val > 0
        /\ AngleFrom(curve.self.input_curve_angle).ok) =>
        LET radius == coerce_length(curve.self.input_radius).val
            m == UnwrapOrDefault(coerce_length(curve.self.input_m))
        IN  /\ m > radius => dimensions.result = Err("GeometryError")
            /\ m <= radius => dimensions.result.ok
            /\ dimensions.result.ok => dimensions.result.val.sight_distance.kind # "nan"

\* C6 as stated: a design speed that is not a key of the table makes
\* calc_min_sight_distance return a LookupError, and the process lives on.
C6_MissReturnsLookupError ==
    (lookup.kind = "called" /\ lookup.design_speed \notin DOMAIN lookup.table) =>
        /\ lookup.result.kind = "Err"
        /\ ~Crashed

\* the value the table stores for the last look-up, at the column of its sight type
Stored ==
    lookup.table[lookup.design_speed][IF lookup.sight_type = "Passing" THEN 2 ELSE 1]

\* C7 as stated: the 1.20 multiplier is applied if and only if
\* sustained_downgrade is set and the sight type is Stopping.
C7_MultiplierOnlyForStopping ==
    (lookup.kind = "called" /\ lookup.result.kind = "Ok") =>
        lookup.result.val =
            IF lookup.sustained_downgrade /\ lookup.sight_type = "Stopping"
            THEN (Stored * 12) \div 10
            ELSE Stored

\* C8: for a speed the table holds and sustained_downgrade false, the result
\* is the stored value of that speed's row, column 0 for Stopping and
\* Decision and column 1 for Passing (where the row has that column).
C8_ExactStoredValue ==
    (lookup.kind = "called"
        /\ ~lookup.sustained_downgrade
        /\ lookup.design_speed \in DOMAIN lookup.table) =>
        LET row == lookup.table[lookup.design_speed]
        IN  /\ (lookup.sight_type \in {"Stopping", "Decision"} /\ Len(row) >= 1)
                   => lookup.result = [kind |-> "Ok", val |-> row[1]]
            /\ (lookup.sight_type = "Passing" /\ Len(row) >= 2)
                   => lookup.result = [kind |-> "Ok", val |-> row[2]]

\* a Decision look-up of a present speed whose two columns differ
C8_Witness ==
    /\ lookup.kind = "called"
    /\ ~lookup.sustained_downgrade
    /\ lookup.design_speed \in DOMAIN lookup.table
    /\ lookup.sight_type = "Decision"
    /\ Len(lookup.table[lookup.design_speed]) >= 2
    /\ lookup.table[lookup.design_speed][1] # lookup.table[lookup.design_speed][2]
    /\ lookup.result.kind = "Ok"

\* C9: to_horizontal_curve returns a curve exactly when to_dimensions and the
\* station parse both succeeded; a malformed radius, curve angle or station
\* makes the call fail, and a returned curve holds the solved dimensions and
\* all three stations.
C9_NoPartialCurve ==
    Called =>
        /\ curve.result.ok <=>
               (dimensions.result.ok /\ coerce_station_value(curve.self.input_station).ok)
        /\ (~coerce_length(curve.self.input_radius).ok
              \/ ~AngleFrom(curve.self.input_curve_angle).ok
              \/ ~coerce_station_value(curve.self.input_station).ok) => ~curve.result.ok
        /\ curve.result.ok =>
               /\ DOMAIN curve.result.val = {"dimensions", "stations"}
               /\ curve.result.val.dimensions = dimensions.result.val
               /\ DOMAIN curve.result.val.stations = {"pc", "pi", "pt"}
        /\ ~curve.result.ok => DOMAIN curve.result = {"ok", "err"}

\* the dimensions were solved and the station did not parse: the call failed
C9_Witness ==
    /\ Called
    /\ dimensions.result.ok
    /\ ~coerce_station_value(curve.self.input_station).ok
    /\ curve.result = Err("ParseError")

\* C10: to_dimensions succeeds exactly when the build method is
\* RadiusCurveAngle and the radius and the curve angle parse, whatever the
\* obstruction offset and design speed texts are; an offset or speed that does
\* not parse counts as zero; a station that does not parse fails the call.
C10_OptionalInputsDefault ==
    dimensions.kind = "called" =>
        LET self == curve.self
        IN  /\ dimensions.result.ok <=>
                   /\ self.input_build_method = "RadiusCurveAngle"
                   /\ coerce_length(self.input_radius).ok
                   /\ AngleFrom(self.input_curve_angle).ok
            /\ (dimensions.result.ok /\ ~coerce_speed(self.input_design_speed).ok)
                   => dimensions.result.val.design_speed = 0
            /\ (dimensions.result.ok /\ ~coerce_length(self.input_m).ok
                    /\ dimensions.result.val.radius > 0)
                   => dimensions.result.val.sight_distance = Num(0)
            /\ ~coerce_station_value(self.input_station).ok => ~curve.result.ok

\* solved with neither an offset nor a design speed that parses
C10_Witness ==
    /\ dimensions.kind = "called"
    /\ dimensions.result.ok
    /\ curve.self.input_m = <<"m">>
    /\ curve.self.input_design_speed = <<>>
    /\ dimensions.result.val.radius > 0
    /\ dimensions.result.val.design_speed = 0

====
